---- MODULE Spec2Model ----
(***************************************************************************)
(* Model of the fragstrings crates: the format-descriptor parsers          *)
(* (utils::fmt_strings and format-procmacro's own fmt_strings), the        *)
(* frag_format! macro with the code it expands to, and the frag_parse!     *)
(* macro with the code it expands to.                                      *)
(*                                                                         *)
(* Text is a sequence of one-character strings: "%s__a" is                 *)
(* <<"%","s","_","_","a">>.  A Rust Option is the record None or Some(v);  *)
(* a tuple returned by frag_parse! is a sequence of its fields.            *)
(***************************************************************************)
EXTENDS Integers, Sequences, FiniteSets

VARIABLES fmt, pc, nargs, fmt_parsed, fcode, pcode, args, formatted, input, parsed

vars == <<fmt, pc, nargs, fmt_parsed, fcode, pcode, args, formatted, input, parsed>>

(***************************************************************************)
(* Bounds of the checked input space.                                      *)
(***************************************************************************)
\* every string over FmtChars up to this length is a descriptor input
MaxRawLen == 4
\* descriptors built from up to this many item tokens (plus an optional '*')
MaxItems == 3
\* macro invocations supply 0..MaxArgs argument expressions
MaxArgs == 4
\* Str argument values are the strings over StrChars up to this length
MaxStrLen == 1
\* Int argument values range over a few values in -MaxInt..MaxInt
MaxInt == 10
\* pattern fragments of decoded texts are renderings of up to this many items
MaxPatItems == 2
\* decoded texts carry up to this many data fragments
MaxFrags == 2
\* further fragments appended to a decoded text
MaxExtra == 1

(***************************************************************************)
(* Option and small helpers.                                               *)
(***************************************************************************)
None == [some |-> FALSE]
Some(v) == [some |-> TRUE, val |-> v]

SeqsUpTo(S, n) == UNION {[1..k -> S] : k \in 0..n}

RECURSIVE Concat(_)
Concat(ss) == IF ss = <<>> THEN <<>> ELSE Head(ss) \o Concat(Tail(ss))

Last(s) == s[Len(s)]

(***************************************************************************)
(* utils::fmt_strings data types.                                          *)
(***************************************************************************)
FormatItemType == {"Str", "Int"}
FormatItemOpt == {"Mandatory", "Optional"}
FormatEnding == {"Closed", "Open"}
FormatItem(ty, op) == [ty |-> ty, opt |-> op]
FormatString(items, ending) == [items |-> items, ending |-> ending]

(***************************************************************************)
(* utils::fmt_strings::parse_format_string_ex.  parse_ex_loop is the body  *)
(* of the `loop`: i is the position of the byte iterator (the next byte    *)
(* to be returned is f[i]), items the vector built so far.                 *)
(***************************************************************************)
\* a finish without the check of the first item
parse_ex_finish_any_first(items, ending) ==
    IF items # <<>> THEN Some(FormatString(items, ending)) ELSE None

parse_ex_finish(items, ending) ==
    IF items # <<>>
    THEN IF items[1].opt = "Optional" THEN None
         ELSE Some(FormatString(items, ending))
    ELSE None

\* a loop that compares a new Mandatory item with the first item, not the last
RECURSIVE parse_ex_loop_first(_, _, _)
parse_ex_loop_first(f, i, items) ==
    IF i > Len(f) THEN parse_ex_finish(items, "Closed")
    ELSE IF f[i] = "*" THEN
        IF i + 1 <= Len(f) THEN None
        ELSE IF items = <<>> THEN None
        ELSE parse_ex_finish(items, "Open")
    ELSE IF f[i] # "%" THEN None
    ELSE IF i + 1 > Len(f) THEN None
    ELSE IF f[i + 1] \notin {"s", "d"} THEN None
    ELSE
        LET item_type == IF f[i + 1] = "s" THEN "Str" ELSE "Int"
            has_q == i + 2 <= Len(f) /\ f[i + 2] = "?"
            item_opt == IF has_q THEN "Optional" ELSE "Mandatory"
            next == IF has_q THEN i + 3 ELSE i + 2
        IN  IF item_opt = "Mandatory" /\ items # <<>> /\ items[1].opt = "Optional"
            THEN None
            ELSE parse_ex_loop_first(f, next, Append(items, FormatItem(item_type, item_opt)))

RECURSIVE parse_ex_loop(_, _, _)
parse_ex_loop(f, i, items) ==
    IF i > Len(f) THEN parse_ex_finish(items, "Closed")
    ELSE IF f[i] = "*" THEN
        IF i + 1 <= Len(f) THEN None
        ELSE IF items = <<>> THEN None
        ELSE parse_ex_finish(items, "Open")
    ELSE IF f[i] # "%" THEN None
    ELSE IF i + 1 > Len(f) THEN None
    ELSE IF f[i + 1] \notin {"s", "d"} THEN None
    ELSE
        LET item_type == IF f[i + 1] = "s" THEN "Str" ELSE "Int"
            has_q == i + 2 <= Len(f) /\ f[i + 2] = "?"
            item_opt == IF has_q THEN "Optional" ELSE "Mandatory"
            next == IF has_q THEN i + 3 ELSE i + 2
        IN  IF item_opt = "Mandatory" /\ items # <<>> /\ Last(items).opt = "Optional"
            THEN None
            ELSE parse_ex_loop(f, next, Append(items, FormatItem(item_type, item_opt)))

parse_format_string_ex(f) ==
    IF f = <<>> THEN None ELSE parse_ex_loop(f, 1, <<>>)

(***************************************************************************)
(* utils::fmt_strings::parse_format_string: the extended parser followed   *)
(* by rejection of Open endings and Optional items.                        *)
(***************************************************************************)
\* a strict parser that lets an Open ending through
parse_format_string_open(f) ==
    LET res == parse_format_string_ex(f)
    IN  IF res.some /\ \E k \in 1..Len(res.val.items) : res.val.items[k].opt = "Optional"
        THEN None
        ELSE IF res.some THEN Some([k \in 1..Len(res.val.items) |-> res.val.items[k].ty])
        ELSE None

parse_format_string(f) ==
    LET res == parse_format_string_ex(f)
    IN  IF res.some /\ res.val.ending # "Closed" THEN None
        ELSE IF res.some /\ \E k \in 1..Len(res.val.items) : res.val.items[k].opt = "Optional"
        THEN None
        ELSE IF res.some THEN Some([k \in 1..Len(res.val.items) |-> res.val.items[k].ty])
        ELSE None

(***************************************************************************)
(* format-procmacro's own fmt_strings::parse_format_string: fixed two-byte *)
(* pairs over a string of even length.                                     *)
(***************************************************************************)
\* a pair loop that does not look at the first byte of a pair
RECURSIVE fmt_parse_tuples_any_lead(_, _, _)
fmt_parse_tuples_any_lead(f, i, res) ==
    IF i + 1 > Len(f) THEN Some(res)
    ELSE IF f[i + 1] \notin {"s", "d"} THEN None
    ELSE fmt_parse_tuples_any_lead(f, i + 2, Append(res, IF f[i + 1] = "s" THEN "Str" ELSE "Int"))

RECURSIVE fmt_parse_tuples(_, _, _)
fmt_parse_tuples(f, i, res) ==
    IF i + 1 > Len(f) THEN Some(res)
    ELSE IF f[i] # "%" THEN None
    ELSE IF f[i + 1] \notin {"s", "d"} THEN None
    ELSE fmt_parse_tuples(f, i + 2, Append(res, IF f[i + 1] = "s" THEN "Str" ELSE "Int"))

\* an encoder that takes the extended grammar and keeps the item types
fmt_parse_format_string_extended(f) ==
    LET res == parse_format_string_ex(f)
    IN  IF res.some THEN Some([k \in 1..Len(res.val.items) |-> res.val.items[k].ty])
        ELSE None

fmt_parse_format_string(f) ==
    LET n == Len(f)
    IN  IF n = 0 \/ n % 2 # 0 THEN None ELSE fmt_parse_tuples(f, 1, <<>>)

(***************************************************************************)
(* Rust's Result, as returned by the macro implementations.                *)
(***************************************************************************)
Ok(v) == [ok |-> TRUE, val |-> v]
Err(e) == [ok |-> FALSE, err |-> e]
NotExpanded == Err("NotExpanded")

(***************************************************************************)
(* Standard-library pieces the expanded code calls.                        *)
(***************************************************************************)
Digits == <<"0", "1", "2", "3", "4", "5", "6", "7", "8", "9">>
IsDigit(c) == \E d \in 1..10 : Digits[d] = c
DigitVal(c) == (CHOOSE d \in 1..10 : Digits[d] = c) - 1

\* Display of a non-negative integer, base 10
RECURSIVE fmt_u64(_)
fmt_u64(n) ==
    IF n < 10 THEN <<Digits[n + 1]>> ELSE fmt_u64(n \div 10) \o <<Digits[(n % 10) + 1]>>

\* a Display that loses the sign
i64_to_string_unsigned(n) == IF n < 0 THEN fmt_u64(0 - n) ELSE fmt_u64(n)

\* <i64 as Display>::fmt
i64_to_string(n) == IF n < 0 THEN <<"-">> \o fmt_u64(0 - n) ELSE fmt_u64(n)

(***************************************************************************)
(* 64-bit values of full width.  A value that may not fit the 32-bit        *)
(* integers of TLC is carried as four 16-bit limbs, most significant       *)
(* first: a u64 as its limbs, an i64 as a sign and the limbs of its        *)
(* magnitude.                                                              *)
(***************************************************************************)
LimbBase == 65536
LimbsZero == <<0, 0, 0, 0>>

\* 2^64 - m over the limbs (0 for m = 0): the magnitude of the negative i64
\* that has the bits of the u64 m
limbs_neg(m) ==
    LET s4 == (LimbBase - 1 - m[4]) + 1
        s3 == (LimbBase - 1 - m[3]) + (s4 \div LimbBase)
        s2 == (LimbBase - 1 - m[2]) + (s3 \div LimbBase)
        s1 == (LimbBase - 1 - m[1]) + (s2 \div LimbBase)
    IN  <<s1 % LimbBase, s2 % LimbBase, s3 % LimbBase, s4 % LimbBase>>

\* quotient and remainder of the limbs by 10
limbs_divmod10(m) ==
    LET t1 == m[1]
        t2 == (t1 % 10) * LimbBase + m[2]
        t3 == (t2 % 10) * LimbBase + m[3]
        t4 == (t3 % 10) * LimbBase + m[4]
    IN  [q |-> <<t1 \div 10, t2 \div 10, t3 \div 10, t4 \div 10>>, r |-> t4 % 10]

\* 10 * m + d over the limbs, with the carry out of 64 bits
limbs_mul10_add(m, d) ==
    LET t4 == m[4] * 10 + d
        t3 == m[3] * 10 + (t4 \div LimbBase)
        t2 == m[2] * 10 + (t3 \div LimbBase)
        t1 == m[1] * 10 + (t2 \div LimbBase)
    IN  [m |-> <<t1 % LimbBase, t2 % LimbBase, t3 % LimbBase, t4 % LimbBase>>,
         carry |-> t1 \div LimbBase]

\* the magnitude is outside the i64 range: above 2^63 - 1, or above 2^63 for
\* a negative value
limbs_out_of_range(m, neg) ==
    IF neg THEN m[1] > 32768 \/ (m[1] = 32768 /\ (m[2] > 0 \/ m[3] > 0 \/ m[4] > 0))
    ELSE m[1] >= 32768

\* an i64 as the model holds it: an integer when the magnitude is below
\* 2^31, a sign and limbs otherwise
narrow(neg, m) ==
    IF m[1] = 0 /\ m[2] = 0 /\ m[3] < 32768
    THEN (IF neg THEN 0 - (m[3] * LimbBase + m[4]) ELSE m[3] * LimbBase + m[4])
    ELSE [neg |-> neg, mag |-> m]

\* a cast that saturates at i64::MAX
u64_as_i64_saturating(v) ==
    IF v[1] < 32768 THEN [neg |-> FALSE, mag |-> v]
    ELSE [neg |-> FALSE, mag |-> <<32767, 65535, 65535, 65535>>]

\* `{ arg } as i64` on a u64 argument: the same 64 bits, read as two's
\* complement
u64_as_i64(v) ==
    IF v[1] < 32768 THEN [neg |-> FALSE, mag |-> v]
    ELSE [neg |-> TRUE, mag |-> limbs_neg(v)]

\* Display of a non-negative value held as limbs, base 10
RECURSIVE fmt_limbs(_)
fmt_limbs(m) ==
    LET d == limbs_divmod10(m)
    IN  IF d.q = LimbsZero THEN <<Digits[d.r + 1]>>
        ELSE fmt_limbs(d.q) \o <<Digits[d.r + 1]>>

\* <i64 as Display>::fmt on a value held as sign and limbs
i64_to_string_wide(w) == IF w.neg THEN <<"-">> \o fmt_limbs(w.mag) ELSE fmt_limbs(w.mag)

\* digits of <i64 as FromStr>::from_str over the limbs: the checked multiply
\* and add (subtract for a negative value) fail as soon as the value leaves
\* the i64 range
RECURSIVE from_str_digits_wide(_, _, _)
from_str_digits_wide(s, neg, m) ==
    IF s = <<>> THEN Ok(narrow(neg, m))
    ELSE IF ~IsDigit(Head(s)) THEN Err("InvalidDigit")
    ELSE LET n == limbs_mul10_add(m, DigitVal(Head(s)))
         IN  IF n.carry > 0 \/ limbs_out_of_range(n.m, neg)
             THEN Err(IF neg THEN "NegOverflow" ELSE "PosOverflow")
             ELSE from_str_digits_wide(Tail(s), neg, n.m)

\* <i64 as FromStr>::from_str on a text too long for the narrow conversion
i64_from_str_wide(s) ==
    IF s[1] = "+" THEN from_str_digits_wide(Tail(s), FALSE, LimbsZero)
    ELSE IF s[1] = "-" THEN from_str_digits_wide(Tail(s), TRUE, LimbsZero)
    ELSE from_str_digits_wide(s, FALSE, LimbsZero)

\* the longest text whose value surely fits a 32-bit integer
NarrowLen == 9

\* digits of <i64 as FromStr>::from_str, most significant first
RECURSIVE from_str_digits(_, _)
from_str_digits(s, acc) ==
    IF s = <<>> THEN Ok(acc)
    ELSE IF ~IsDigit(Head(s)) THEN Err("InvalidDigit")
    ELSE from_str_digits(Tail(s), acc * 10 + DigitVal(Head(s)))

\* a conversion that reads the empty text as zero
i64_from_str_empty_zero(s) ==
    IF s = <<>> THEN Ok(0)
    ELSE IF Len(s) = 1 /\ s[1] \in {"+", "-"} THEN Err("InvalidDigit")
    ELSE IF s[1] = "+" THEN from_str_digits(Tail(s), 0)
    ELSE IF s[1] = "-" THEN
        LET r == from_str_digits(Tail(s), 0)
        IN  IF r.ok THEN Ok(0 - r.val) ELSE r
    ELSE from_str_digits(s, 0)

\* <i64 as FromStr>::from_str: an optional sign, then one or more digits;
\* a text longer than NarrowLen is converted over the limbs, where the
\* 64-bit range is checked
i64_from_str(s) ==
    IF Len(s) > NarrowLen THEN i64_from_str_wide(s)
    ELSE IF s = <<>> THEN Err("Empty")
    ELSE IF Len(s) = 1 /\ s[1] \in {"+", "-"} THEN Err("InvalidDigit")
    ELSE IF s[1] = "+" THEN from_str_digits(Tail(s), 0)
    ELSE IF s[1] = "-" THEN
        LET r == from_str_digits(Tail(s), 0)
        IN  IF r.ok THEN Ok(0 - r.val) ELSE r
    ELSE from_str_digits(s, 0)

\* a split on every single "_"
RECURSIVE split_loop_single(_, _, _, _)
split_loop_single(s, i, cur, acc) ==
    IF i > Len(s) THEN Append(acc, cur)
    ELSE IF s[i] = "_"
    THEN split_loop_single(s, i + 1, <<>>, Append(acc, cur))
    ELSE split_loop_single(s, i + 1, Append(cur, s[i]), acc)

\* str::split("__"): non-overlapping matches of the delimiter, left to right;
\* always yields at least one fragment
RECURSIVE split_loop(_, _, _, _)
split_loop(s, i, cur, acc) ==
    IF i > Len(s) THEN Append(acc, cur)
    ELSE IF i + 1 <= Len(s) /\ s[i] = "_" /\ s[i + 1] = "_"
    THEN split_loop(s, i + 2, <<>>, Append(acc, cur))
    ELSE split_loop(s, i + 1, Append(cur, s[i]), acc)

split(s) == split_loop(s, 1, <<>>, <<>>)

\* a check that asks whether the prefix starts with the string
starts_with_reversed(s, p) == Len(s) <= Len(p) /\ SubSeq(p, 1, Len(s)) = s

\* str::starts_with
starts_with(s, p) == Len(p) <= Len(s) /\ SubSeq(s, 1, Len(p)) = p

\* a join that puts the separator after the first piece only
intersperse_collect_once(ss, sep) ==
    IF ss = <<>> THEN <<>>
    ELSE IF Len(ss) = 1 THEN ss[1]
    ELSE ss[1] \o sep \o Concat(Tail(ss))

\* Iterator::intersperse followed by collect::<String>()
RECURSIVE intersperse_collect(_, _)
intersperse_collect(ss, sep) ==
    IF ss = <<>> THEN <<>>
    ELSE IF Len(ss) = 1 THEN ss[1]
    ELSE ss[1] \o sep \o intersperse_collect(Tail(ss), sep)

\* std::format!: each "{}" of the template is replaced by the next argument
RECURSIVE std_format(_, _)
std_format(tpl, shown) ==
    IF tpl = <<>> THEN <<>>
    ELSE IF Len(tpl) >= 2 /\ tpl[1] = "{" /\ tpl[2] = "}"
    THEN Head(shown) \o std_format(SubSeq(tpl, 3, Len(tpl)), Tail(shown))
    ELSE <<tpl[1]>> \o std_format(Tail(tpl), shown)

(***************************************************************************)
(* frag_format!: the macro implementation (what it decides at expansion    *)
(* time from the descriptor literal and the number of argument             *)
(* expressions) and the block it expands to.                               *)
(***************************************************************************)
\* an implementation that only refuses too few arguments
frag_format_impl_too_few(f, n) ==
    LET fmt_items == fmt_parse_format_string(f)
    IN  IF ~fmt_items.some THEN Err("BadFormatString")
        ELSE IF Len(fmt_items.val) > n THEN Err("ArgCountMismatch")
        ELSE Ok([fmt_items |-> fmt_items.val,
                 fmt_string |-> intersperse_collect(
                                    <<f>> \o [k \in 1..Len(fmt_items.val) |-> <<"{", "}">>],
                                    <<"_", "_">>)])

frag_format_impl(f, n) ==
    LET fmt_items == fmt_parse_format_string(f)
    IN  IF ~fmt_items.some THEN Err("BadFormatString")
        ELSE IF Len(fmt_items.val) # n THEN Err("ArgCountMismatch")
        ELSE Ok([fmt_items |-> fmt_items.val,
                 fmt_string |-> intersperse_collect(
                                    <<f>> \o [k \in 1..Len(fmt_items.val) |-> <<"{", "}">>],
                                    <<"_", "_">>)])

\* `{ arg } as i64` on an argument of a signed type no wider than 64 bits
as_i64(v) == v

\* the `let _i = ...` declarations: a Str slot borrows the text, an Int slot
\* is cast to i64; std::format! then renders each with Display
var_display(ty, v) == IF ty = "Str" THEN v ELSE i64_to_string(as_i64(v))

frag_format_run(code, a) ==
    std_format(code.fmt_string,
               [k \in 1..Len(code.fmt_items) |-> var_display(code.fmt_items[k], a[k])])

\* the declarations and the rendering when the Int arguments are u64
var_display_u64(ty, v) == IF ty = "Str" THEN v ELSE i64_to_string_wide(u64_as_i64(v))

frag_format_run_u64(code, a) ==
    std_format(code.fmt_string,
               [k \in 1..Len(code.fmt_items) |-> var_display_u64(code.fmt_items[k], a[k])])

(***************************************************************************)
(* frag_parse!: the macro implementation and the block it expands to.      *)
(***************************************************************************)
\* a test that finds no Optional item
has_optional_items_never(items) == FALSE

has_optional_items(items) == \E k \in 1..Len(items) : items[k].opt = "Optional"

RECURSIVE rebuild_format_string(_)
rebuild_format_string(items) ==
    IF items = <<>> THEN <<>>
    ELSE (IF Head(items).opt = "Mandatory"
          THEN (IF Head(items).ty = "Str" THEN <<"%", "s">> ELSE <<"%", "d">>)
          ELSE <<>>)
         \o rebuild_format_string(Tail(items))

\* an implementation that reports the literal's error for a bad descriptor
frag_parse_impl_literal_error(f) ==
    LET p == parse_format_string_ex(f)
    IN  IF ~p.some THEN Err("BadStringLiteral")
        ELSE Ok([fmt_items |-> p.val.items,
                 fmt_string |-> rebuild_format_string(p.val.items),
                 has_optionals |-> has_optional_items(p.val.items),
                 open_ending |-> p.val.ending = "Open"])

frag_parse_impl(f) ==
    LET p == parse_format_string_ex(f)
    IN  IF ~p.some THEN Err("BadFormatString")
        ELSE Ok([fmt_items |-> p.val.items,
                 fmt_string |-> rebuild_format_string(p.val.items),
                 has_optionals |-> has_optional_items(p.val.items),
                 open_ending |-> p.val.ending = "Open"])

\* one `let _i = ...` declaration of the expanded block: j is the position of
\* the `fragments` iterator (frags[j] is what next() returns), the result is
\* the variable's value, whether `ok` was cleared, and the new position
\* a declaration that asks for a fragment even when the item is Optional
var_decl_optional_required(item, frags, j) ==
    LET has == j <= Len(frags)
        num == IF has THEN i64_from_str(frags[j]) ELSE Err("Empty")
        nj == IF has THEN j + 1 ELSE j
    IN  IF item.ty = "Str"
        THEN [v |-> IF item.opt = "Mandatory" THEN (IF has THEN frags[j] ELSE <<>>)
                    ELSE (IF has THEN Some(frags[j]) ELSE None),
              ok |-> has, j |-> nj]
        ELSE [v |-> IF item.opt = "Mandatory" THEN (IF has /\ num.ok THEN num.val ELSE 0)
                    ELSE (IF has THEN Some(IF num.ok THEN num.val ELSE 0) ELSE None),
              ok |-> has /\ num.ok, j |-> nj]

var_decl(item, frags, j) ==
    LET has == j <= Len(frags)
        num == IF has THEN i64_from_str(frags[j]) ELSE Err("Empty")
        nj == IF has THEN j + 1 ELSE j
    IN  IF item.opt = "Mandatory" THEN
            IF item.ty = "Str"
            THEN [v |-> IF has THEN frags[j] ELSE <<>>, ok |-> has, j |-> nj]
            ELSE [v |-> IF has /\ num.ok THEN num.val ELSE 0, ok |-> has /\ num.ok, j |-> nj]
        ELSE
            IF item.ty = "Str"
            THEN [v |-> IF has THEN Some(frags[j]) ELSE None, ok |-> TRUE, j |-> nj]
            ELSE [v |-> IF has THEN Some(IF num.ok THEN num.val ELSE 0) ELSE None,
                  ok |-> ~has \/ num.ok, j |-> nj]

RECURSIVE var_decls(_, _, _, _, _)
var_decls(items, frags, j, ok, vs) ==
    IF items = <<>> THEN [ok |-> ok, vars |-> vs, j |-> j]
    ELSE LET d == var_decl(Head(items), frags, j)
         IN  var_decls(Tail(items), frags, d.j, ok /\ d.ok, Append(vs, d.v))

\* a prefix check that is a starts_with for every schema
pattern_ok_prefix(code, pattern) == starts_with(pattern, code.fmt_string)

\* the prefix check on the pattern fragment
pattern_ok(code, pattern) ==
    IF code.open_ending \/ code.has_optionals
    THEN starts_with(pattern, code.fmt_string)
    ELSE pattern = code.fmt_string

\* a tail check that lets every leftover fragment pass
all_good_open(code, frags, j) == TRUE

\* `fragments.next().is_none()` unless the ending is open
all_good(code, frags, j) == IF code.open_ending THEN TRUE ELSE j > Len(frags)

\* a block whose tail check is made whatever the ending
frag_parse_run_strict_tail(code, text) ==
    LET fragments == split(text)
        r == var_decls(code.fmt_items, fragments, 2, TRUE, <<>>)
    IN  IF pattern_ok(code, fragments[1]) /\ r.ok /\ r.j > Len(fragments)
        THEN Some(r.vars) ELSE None

frag_parse_run(code, text) ==
    LET fragments == split(text)
        pattern == fragments[1]
    IN  IF pattern_ok(code, pattern) THEN
            LET r == var_decls(code.fmt_items, fragments, 2, TRUE, <<>>)
            IN  IF r.ok /\ all_good(code, fragments, r.j) THEN Some(r.vars) ELSE None
        ELSE None

(***************************************************************************)
(* Input spaces.                                                           *)
(***************************************************************************)
FmtChars == {"%", "s", "d", "?", "*", "x"}
ItemTokens == {<<"%", "s">>, <<"%", "d">>, <<"%", "s", "?">>, <<"%", "d", "?">>}

\* descriptor literals: every short string over FmtChars, and every sequence
\* of up to MaxItems item tokens with or without a final '*'
RawDescriptors == SeqsUpTo(FmtChars, MaxRawLen)
TokenDescriptors ==
    {Concat(t) \o e : t \in SeqsUpTo(ItemTokens, MaxItems), e \in {<<>>, <<"*">>}}
Descriptors == RawDescriptors \cup TokenDescriptors

StrChars == {"a", "_"}
\* Str values that begin with "_", end with "_", or are the delimiter itself
DelimiterVals == {<<"_", "a">>, <<"a", "_">>, <<"_", "_">>}
StrVals == SeqsUpTo(StrChars, MaxStrLen) \cup DelimiterVals
IntVals == {0 - MaxInt, 0, 7}
ArgValues(ty) == IF ty = "Str" THEN StrVals ELSE IntVals

\* argument tuples whose types fit the slots (the type checker of the
\* expanded block admits nothing else)
RECURSIVE ArgTuples(_)
ArgTuples(tys) ==
    IF tys = <<>> THEN {<<>>}
    ELSE {<<v>> \o t : v \in ArgValues(Head(tys)), t \in ArgTuples(Tail(tys))}

TypeText(ty) == IF ty = "Str" THEN <<"%", "s">> ELSE <<"%", "d">>
Patterns ==
    {Concat([k \in 1..Len(t) |-> TypeText(t[k])]) : t \in SeqsUpTo(FormatItemType, MaxPatItems)}
DataFrags == {<<>>, <<"a">>, <<"7">>}
JoinText(p, fs) == p \o Concat([k \in 1..Len(fs) |-> <<"_", "_">> \o fs[k]])
\* fragment lists longer than MaxFrags, up to one more fragment than a
\* schema has items: each fragment is "7", which a Str and an Int slot take
LongFrags == {[i \in 1..n |-> <<"7">>] : n \in (MaxFrags + 1)..(MaxItems + 1)}
Texts ==
    {JoinText(p, fs) : p \in Patterns, fs \in SeqsUpTo(DataFrags, MaxFrags) \cup LongFrags}

\* u64 arguments for Int slots: 7, 2^63 - 1, 2^63, 2^64 - MaxInt, 2^64 - 1
U64Seven == <<0, 0, 0, 7>>
U64HalfLess == <<32767, 65535, 65535, 65535>>
U64Half == <<32768, 0, 0, 0>>
U64NearMax == <<65535, 65535, 65535, LimbBase - MaxInt>>
U64Max == <<65535, 65535, 65535, 65535>>
U64Vals == {U64Seven, U64HalfLess, U64Half, U64NearMax, U64Max}

\* argument tuples with a u64 in every Int slot
RECURSIVE ArgTuplesU64(_)
ArgTuplesU64(tys) ==
    IF tys = <<>> THEN {<<>>}
    ELSE {<<v>> \o t : v \in (IF Head(tys) = "Str" THEN StrVals ELSE U64Vals),
                       t \in ArgTuplesU64(Tail(tys))}

\* descriptor literals a reader may use for strings written under the
\* all-Mandatory descriptor with item types tys: the same items with a
\* non-empty tail of them marked '?', or a non-empty head of them and '*'
LaterDescriptors(tys) ==
    {Concat([k \in 1..Len(tys) |->
                TypeText(tys[k]) \o (IF k > h THEN <<"?">> ELSE <<>>)]) :
        h \in 1..(Len(tys) - 1)}
    \cup {Concat([k \in 1..h |-> TypeText(tys[k])]) \o <<"*">> : h \in 1..Len(tys)}

(***************************************************************************)
(* State machine: one descriptor literal, on which a caller runs one of    *)
(* the descriptor parsers, or expands and runs frag_format!, or expands    *)
(* and runs frag_parse! (on a text of its own or on the string that        *)
(* frag_format! just produced under the same literal), or runs frag_parse! *)
(* under a later literal on the string that frag_format! just produced; or *)
(* runs frag_format! on u64 arguments and frag_parse! on its output.       *)
(***************************************************************************)
Init ==
    /\ fmt \in Descriptors
    /\ pc = "start"
    /\ nargs = 0
    /\ fmt_parsed = None
    /\ fcode = NotExpanded
    /\ pcode = NotExpanded
    /\ args = <<>>
    /\ formatted = None
    /\ input = <<>>
    /\ parsed = None

ParseFormatStringEx ==
    /\ pc = "start"
    /\ fmt_parsed' = parse_format_string_ex(fmt)
    /\ pc' = "parse_format_string_ex"
    /\ UNCHANGED <<fmt, nargs, fcode, pcode, args, formatted, input, parsed>>

ParseFormatString ==
    /\ pc = "start"
    /\ fmt_parsed' = parse_format_string(fmt)
    /\ pc' = "parse_format_string"
    /\ UNCHANGED <<fmt, nargs, fcode, pcode, args, formatted, input, parsed>>

FmtParseFormatString ==
    /\ pc = "start"
    /\ fmt_parsed' = fmt_parse_format_string(fmt)
    /\ pc' = "fmt_parse_format_string"
    /\ UNCHANGED <<fmt, nargs, fcode, pcode, args, formatted, input, parsed>>

FragFormatImpl ==
    /\ pc = "start"
    /\ \E n \in 0..MaxArgs :
        /\ nargs' = n
        /\ fcode' = frag_format_impl(fmt, n)
    /\ pc' = "frag_format_impl"
    /\ UNCHANGED <<fmt, fmt_parsed, pcode, args, formatted, input, parsed>>

FragFormatRun ==
    /\ pc = "frag_format_impl"
    /\ fcode.ok
    /\ \E a \in ArgTuples(fcode.val.fmt_items) :
        /\ args' = a
        /\ formatted' = Some(frag_format_run(fcode.val, a))
    /\ pc' = "frag_format"
    /\ UNCHANGED <<fmt, nargs, fmt_parsed, fcode, pcode, input, parsed>>

FragParseImpl ==
    /\ pc \in {"start", "frag_format"}
    /\ pcode' = frag_parse_impl(fmt)
    /\ pc' = "frag_parse_impl"
    /\ UNCHANGED <<fmt, nargs, fmt_parsed, fcode, args, formatted, input, parsed>>

FragParseRun ==
    /\ pc = "frag_parse_impl"
    /\ pcode.ok
    /\ \E text \in (IF formatted.some THEN {formatted.val} ELSE Texts) :
        /\ input' = text
        /\ parsed' = frag_parse_run(pcode.val, text)
    /\ pc' = "frag_parse"
    /\ UNCHANGED <<fmt, nargs, fmt_parsed, fcode, pcode, args, formatted>>

\* the block of frag_format! run on arguments whose Int slots are u64
FragFormatRunU64 ==
    /\ pc = "frag_format_impl"
    /\ fcode.ok
    /\ \E a \in ArgTuplesU64(fcode.val.fmt_items) :
        /\ args' = a
        /\ formatted' = Some(frag_format_run_u64(fcode.val, a))
    /\ pc' = "frag_format_u64"
    /\ UNCHANGED <<fmt, nargs, fmt_parsed, fcode, pcode, input, parsed>>

\* frag_parse! under the same literal, expanded and run on that string
FragParseU64 ==
    /\ pc = "frag_format_u64"
    /\ pcode' = frag_parse_impl(fmt)
    /\ pcode'.ok
    /\ input' = formatted.val
    /\ parsed' = frag_parse_run(pcode'.val, formatted.val)
    /\ pc' = "frag_parse_u64"
    /\ UNCHANGED <<fmt, nargs, fmt_parsed, fcode, args, formatted>>

\* frag_parse! with a literal of its own, expanded and run on the string that
\* frag_format! produced
FragParseOther ==
    /\ pc = "frag_format"
    /\ \E d \in LaterDescriptors(fcode.val.fmt_items) :
        /\ pcode' = frag_parse_impl(d)
        /\ pcode'.ok
        /\ input' = formatted.val
        /\ parsed' = frag_parse_run(pcode'.val, formatted.val)
    /\ pc' = "frag_parse_other"
    /\ UNCHANGED <<fmt, nargs, fmt_parsed, fcode, args, formatted>>

Next ==
    \/ ParseFormatStringEx
    \/ ParseFormatString
    \/ FmtParseFormatString
    \/ FragFormatImpl
    \/ FragFormatRun
    \/ FragParseImpl
    \/ FragParseRun
    \/ FragParseOther
    \/ FragFormatRunU64
    \/ FragParseU64

Spec == Init /\ [][Next]_vars

(***************************************************************************)
(* Vocabulary of the properties.                                           *)
(***************************************************************************)
\* the descriptor text of a schema
ItemText(it) == TypeText(it.ty) \o (IF it.opt = "Optional" THEN <<"?">> ELSE <<>>)
DescriptorText(fs) ==
    Concat([k \in 1..Len(fs.items) |-> ItemText(fs.items[k])])
    \o (IF fs.ending = "Open" THEN <<"*">> ELSE <<>>)

\* the schemas of the descriptor grammar whose text has n characters: one or
\* more Mandatory items (2 characters each), then zero or more Optional items
\* (3 characters each), Closed or Open (1 character)
GrammarShapes(n) ==
    {x \in (1..n) \X (0..n) \X FormatEnding :
        2 * x[1] + 3 * x[2] + (IF x[3] = "Open" THEN 1 ELSE 0) = n}
GrammarSchemas(n) ==
    UNION {{FormatString([k \in 1..x[1] |-> FormatItem(m[k], "Mandatory")]
                         \o [k \in 1..x[2] |-> FormatItem(o[k], "Optional")], x[3]) :
               m \in [1..x[1] -> FormatItemType], o \in [1..x[2] -> FormatItemType]} :
           x \in GrammarShapes(n)}

InGrammar(f) == \E fs \in GrammarSchemas(Len(f)) : DescriptorText(fs) = f

\* the descriptors that are a non-empty run of %s and %d items
InStrictGrammar(f) ==
    /\ Len(f) >= 2
    /\ \E t \in [1..(Len(f) \div 2) -> FormatItemType] :
           Concat([k \in 1..Len(t) |-> TypeText(t[k])]) = f

\* positional base-10 notation of an integer
NumDigits(n) == CHOOSE d \in 1..9 : (d = 1 \/ 10 ^ (d - 1) <= n) /\ n < 10 ^ d
Magnitude(n) == IF n < 0 THEN 0 - n ELSE n
Decimal(n) ==
    (IF n < 0 THEN <<"-">> ELSE <<>>)
    \o [k \in 1..NumDigits(Magnitude(n)) |->
            Digits[((Magnitude(n) \div (10 ^ (NumDigits(Magnitude(n)) - k))) % 10) + 1]]

ValueText(ty, v) == IF ty = "Str" THEN v ELSE Decimal(v)

\* a string has the delimiter "__" somewhere inside
HasDelimiter(s) == \E i \in 1..(Len(s) - 1) : s[i] = "_" /\ s[i + 1] = "_"
EndsWithUnderscore(s) == s # <<>> /\ s[Len(s)] = "_"

\* the part of a text before its first "__"
PatternFragment(t) ==
    IF HasDelimiter(t)
    THEN SubSeq(t, 1, (CHOOSE i \in 1..(Len(t) - 1) :
                          /\ t[i] = "_" /\ t[i + 1] = "_"
                          /\ \A h \in 1..(i - 1) : ~(t[h] = "_" /\ t[h + 1] = "_")) - 1)
    ELSE t

NumMandatory(items) == Cardinality({k \in 1..Len(items) : items[k].opt = "Mandatory"})
NumOptional(items) == Cardinality({k \in 1..Len(items) : items[k].opt = "Optional"})
NumDataFragments(t) == Len(split(t)) - 1

\* frag_parse! ran on the string frag_format! produced under the same literal
RoundTripDone == pc = "frag_parse" /\ formatted.some /\ input = formatted.val

(***************************************************************************)
(* Round trip.                                                             *)
(***************************************************************************)
\* C1 (as stated): for every all-Mandatory Closed descriptor and every value
\* tuple of the declared types, decoding the encoded string under the same
\* descriptor returns Some of exactly that tuple.
C1_RoundTripAnyValues ==
    RoundTripDone => parsed = Some(args)

\* the values whose text cannot be confused with a delimiter: no Str value
\* contains "__", and no Str value but the last ends with "_"
DelimiterFree(tys, a) ==
    \A k \in 1..Len(tys) :
        tys[k] = "Str" =>
            /\ ~HasDelimiter(a[k])
            /\ (k < Len(tys) => ~EndsWithUnderscore(a[k]))

\* C1 (amended): the round trip holds for every all-Mandatory Closed
\* descriptor and every value tuple of the declared types in which no Str
\* value contains "__" and no Str value other than the last ends with "_".
C1_RoundTrip ==
    (RoundTripDone /\ DelimiterFree(fcode.val.fmt_items, args)) => parsed = Some(args)

\* a round trip of a negative Int followed by the Str "_"
C1_Witness ==
    /\ RoundTripDone
    /\ fmt = <<"%", "d", "%", "s">>
    /\ args = <<0 - MaxInt, <<"_">>>>
    /\ parsed = Some(args)

(***************************************************************************)
(* The descriptor parser.                                                  *)
(***************************************************************************)
\* C2: parse_format_string_ex accepts a descriptor iff it is one or more
\* Mandatory items, then zero or more Optional items, then at most one final
\* '*'; on acceptance the items are those of the descriptor in order with
\* their type and optionality, and the ending is Open exactly when the
\* descriptor ends with '*'.
C2_ParserAcceptsGrammar ==
    pc = "parse_format_string_ex" =>
        /\ fmt_parsed.some <=> InGrammar(fmt)
        /\ fmt_parsed.some =>
            /\ DescriptorText(fmt_parsed.val) = fmt
            /\ fmt_parsed.val.ending = "Open" <=> Last(fmt) = "*"

\* `%s%d?*` is accepted as Str-Mandatory, Int-Optional, Open
C2_Witness ==
    /\ pc = "parse_format_string_ex"
    /\ fmt = <<"%", "s", "%", "d", "?", "*">>
    /\ fmt_parsed = Some(FormatString(<<FormatItem("Str", "Mandatory"),
                                        FormatItem("Int", "Optional")>>, "Open"))

\* C3: every schema the parser returns has at least one item, a Mandatory
\* first item, and no Mandatory item anywhere after an Optional one.
C3_SchemaInvariants ==
    (pc = "parse_format_string_ex" /\ fmt_parsed.some) =>
        LET items == fmt_parsed.val.items
        IN  /\ Len(items) >= 1
            /\ items[1].opt = "Mandatory"
            /\ \A i \in 1..Len(items) : \A j \in (i + 1)..Len(items) :
                   items[i].opt = "Optional" => items[j].opt = "Optional"

\* a returned schema whose Optional suffix has two items
C3_Witness ==
    /\ pc = "parse_format_string_ex"
    /\ fmt_parsed.some
    /\ Len(fmt_parsed.val.items) = 3
    /\ fmt_parsed.val.items[2].opt = "Optional"
    /\ fmt_parsed.val.items[3].opt = "Optional"

(***************************************************************************)
(* Errors of descriptor compilation.                                       *)
(***************************************************************************)
EmptyDescriptor == <<>>
LeadingOptionalDescriptor == <<"%", "s", "?">>
MandatoryAfterOptionalDescriptor == <<"%", "s", "?", "%", "d">>

\* C4 (as stated): compilation reports a distinct error kind per cause: Empty
\* for the empty descriptor, LeadingOptional for `%s?`, MandatoryAfterOptional
\* for `%s?%d`.
C4_DistinctErrorKinds ==
    pc = "frag_parse_impl" =>
        /\ fmt = EmptyDescriptor => pcode = Err("Empty")
        /\ fmt = LeadingOptionalDescriptor => pcode = Err("LeadingOptional")
        /\ fmt = MandatoryAfterOptionalDescriptor => pcode = Err("MandatoryAfterOptional")

\* C4 (amended): compilation fails for the empty descriptor, for `%s?` and for
\* `%s?%d`, each time with the one error kind BadFormatString: the parser
\* returns None without a cause.
C4_OneErrorKind ==
    fmt \in {EmptyDescriptor, LeadingOptionalDescriptor, MandatoryAfterOptionalDescriptor} =>
        /\ pc = "parse_format_string_ex" => fmt_parsed = None
        /\ pc = "frag_parse_impl" => pcode = Err("BadFormatString")

\* `%s?%d` has been compiled and was refused as a bad format string
C4_Witness ==
    /\ pc = "frag_parse_impl"
    /\ fmt = MandatoryAfterOptionalDescriptor
    /\ pcode = Err("BadFormatString")

(***************************************************************************)
(* The encoder.                                                            *)
(***************************************************************************)
\* C5: for a descriptor of n Mandatory items and n values the output is the
\* descriptor text followed, for each value in order, by "__" and the value's
\* text (a Str as is, an Int in base-10 signed form).
C5_EncoderOutput ==
    pc = "frag_format" =>
        LET tys == fcode.val.fmt_items
        IN  /\ Len(args) = Len(tys)
            /\ formatted = Some(fmt \o Concat([k \in 1..Len(args) |->
                                   <<"_", "_">> \o ValueText(tys[k], args[k])]))
            /\ starts_with(formatted.val, fmt)

\* an Int of two digits with a sign, then a Str, have been encoded
C5_Witness ==
    /\ pc = "frag_format"
    /\ fmt = <<"%", "d", "%", "s">>
    /\ args = <<0 - MaxInt, <<"a">>>>
    /\ Len(formatted.val) = Len(fmt) + 2 + 1 + NumDigits(MaxInt) + 2 + 1

OptionalDescriptor == <<"%", "s", "%", "d", "?">>

\* C6 (as stated): encoding accepts a schema that has Optional items and takes
\* one value per slot: two values under `%s%d?` are encoded.
C6_EncoderAcceptsOptional ==
    (pc = "frag_format_impl" /\ fmt = OptionalDescriptor /\ nargs = 2) => fcode.ok

\* C6 (amended): encoding refuses every descriptor that has Optional items as
\* a bad format string, whatever the number of values: two values under
\* `%s%d?` yield no string.
C6_EncoderRejectsOptional ==
    (/\ pc = "frag_format_impl"
     /\ \E i \in 1..Len(fmt) : fmt[i] = "?"
     /\ InGrammar(fmt))
    => fcode = Err("BadFormatString")

\* frag_format! has been expanded on `%s%d?` with two arguments
C6_Witness ==
    /\ pc = "frag_format_impl"
    /\ fmt = OptionalDescriptor
    /\ nargs = 2
    /\ ~fcode.ok

\* the number of items a descriptor of the grammar declares
NumItemsDeclared(f) == Cardinality({i \in 1..Len(f) : f[i] = "%"})

\* C7 (as stated): for every valid descriptor, Optional items and Open
\* endings included, a number of values that differs from the number of
\* items is an argument-count error.
C7_ArgCountMismatchAnyValid ==
    (/\ pc = "frag_format_impl"
     /\ nargs # NumItemsDeclared(fmt)
     /\ fcode # Err("ArgCountMismatch"))
    => ~InGrammar(fmt)

\* C7 (amended): for every descriptor the encoder accepts (a non-empty run
\* of Mandatory items, Closed), a number of values that differs from the
\* number of items is an argument-count error, and no string is produced.
C7_ArgCountMismatch ==
    InStrictGrammar(fmt) =>
        /\ (pc = "frag_format_impl" /\ nargs # Len(fmt) \div 2) =>
               fcode = Err("ArgCountMismatch")
        /\ pc \in {"frag_format", "frag_parse_impl", "frag_parse"} /\ formatted.some =>
               nargs = Len(fmt) \div 2 /\ Len(args) = nargs

\* three values have been supplied for the two items of `%d%d`
C7_Witness ==
    /\ pc = "frag_format_impl"
    /\ fmt = <<"%", "d", "%", "d">>
    /\ nargs = 3
    /\ fcode = Err("ArgCountMismatch")

\* C8: the encoder accepts a descriptor iff it is a non-empty run of %s and
\* %d items; a descriptor that contains '*' or any other character is a bad
\* format string whatever arguments are supplied.
C8_EncoderGrammar ==
    pc = "frag_format_impl" =>
        /\ fcode # Err("BadFormatString") <=> InStrictGrammar(fmt)
        /\ (\E i \in 1..Len(fmt) : fmt[i] \notin {"%", "s", "d"}) =>
               fcode = Err("BadFormatString")

\* `%d*` with one argument has been refused
C8_Witness ==
    /\ pc = "frag_format_impl"
    /\ fmt = <<"%", "d", "*">>
    /\ nargs = 1
    /\ fcode = Err("BadFormatString")

(***************************************************************************)
(* The decoder.                                                            *)
(***************************************************************************)
\* C9: under a Closed schema without Optional items, a text whose pattern
\* fragment is not exactly the schema's descriptor decodes to None, whatever
\* its data fragments.
C9_ExactPattern ==
    (/\ pc = "frag_parse"
     /\ NumOptional(pcode.val.fmt_items) = 0
     /\ Last(fmt) # "*"
     /\ PatternFragment(input) # fmt)
    => parsed = None

\* a longer pattern that starts with the descriptor, with a data fragment
\* for the one item, has been refused
C9_Witness ==
    /\ pc = "frag_parse"
    /\ fmt = <<"%", "s">>
    /\ input = <<"%", "s", "%", "d", "_", "_", "a">>
    /\ parsed = None

\* C10: with k Mandatory and m Optional items, a text with fewer than k data
\* fragments decodes to None, and under a Closed ending so does a text with
\* more than k+m; a Closed schema matches only texts with k..k+m fragments.
C10_FragmentCount ==
    pc \in {"frag_parse", "frag_parse_other"} =>
        LET k == NumMandatory(pcode.val.fmt_items)
            m == NumOptional(pcode.val.fmt_items)
            c == NumDataFragments(input)
        IN  /\ c < k => parsed = None
            /\ (~pcode.val.open_ending /\ c > k + m) => parsed = None
            /\ (~pcode.val.open_ending /\ parsed.some) => (k <= c /\ c <= k + m)

\* one fragment too many for the Closed schema `%s%d?`: k = 1, m = 1, c = 3
C10_Witness ==
    /\ pc = "frag_parse"
    /\ fmt = OptionalDescriptor
    /\ pcode.val.has_optionals /\ ~pcode.val.open_ending
    /\ input = <<"%", "s", "%", "d", "_", "_", "7", "_", "_", "7", "_", "_", "7">>
    /\ NumDataFragments(input) = 3
    /\ parsed = None

(***************************************************************************)
(* The decoder: Open endings, Optional items, fragment contents.           *)
(***************************************************************************)
\* frag_parse! has run, under the literal of frag_format! or a later one
ParseDone == pc \in {"frag_parse", "frag_parse_other"}

\* the descriptor literal frag_parse! was expanded with
ParseDescriptor ==
    DescriptorText(FormatString(pcode.val.fmt_items,
                                IF pcode.val.open_ending THEN "Open" ELSE "Closed"))

\* the text t followed by the further fragments fs
Extended(t, fs) == t \o Concat([k \in 1..Len(fs) |-> <<"_", "_">> \o fs[k]])
\* the appended fragments: up to MaxExtra of them, empty or not (an Open
\* ending never reads them)
ExtraFragments == SeqsUpTo({<<>>, <<"a">>}, MaxExtra) \ {<<>>}

\* C11 (as stated): under an Open schema with n items, a text with at least
\* n data fragments that decodes to a tuple decodes to the same tuple, of n
\* fields, after any further fragments are appended to it.
C11_ExtraFragmentsIgnoredAnyText ==
    (/\ ParseDone
     /\ pcode.val.open_ending
     /\ parsed.some
     /\ NumDataFragments(input) >= Len(pcode.val.fmt_items))
    => /\ Len(parsed.val) = Len(pcode.val.fmt_items)
       /\ \A e \in ExtraFragments :
              frag_parse_run(pcode.val, Extended(input, e)) = parsed

\* C11 (amended): the same, for a text that has more than n data fragments
\* or does not end with "_"; a final "_" of the n-th fragment would join the
\* delimiter that the first appended fragment brings.
C11_ExtraFragmentsIgnored ==
    (/\ ParseDone
     /\ pcode.val.open_ending
     /\ parsed.some
     /\ NumDataFragments(input) >= Len(pcode.val.fmt_items)
     /\ (NumDataFragments(input) > Len(pcode.val.fmt_items)
            \/ ~EndsWithUnderscore(input)))
    => /\ Len(parsed.val) = Len(pcode.val.fmt_items)
       /\ \A e \in ExtraFragments :
              frag_parse_run(pcode.val, Extended(input, e)) = parsed

\* `%d*` has decoded a text that carries a second fragment into one field
C11_Witness ==
    /\ pc = "frag_parse"
    /\ ParseDescriptor = <<"%", "d", "*">>
    /\ input = <<"%", "d", "%", "s", "_", "_", "7", "_", "_", "a">>
    /\ parsed = Some(<<7>>)

\* the i-th data fragment of a text
DataFragment(t, i) == split(t)[i + 1]

\* the text of a base-10 integer: an optional sign and one or more digits
UnsignedPart(s) == IF s # <<>> /\ s[1] \in {"+", "-"} THEN Tail(s) ELSE s
IsDecimal(s) ==
    /\ UnsignedPart(s) # <<>>
    /\ \A i \in 1..Len(UnsignedPart(s)) : \E d \in 1..10 : Digits[d] = UnsignedPart(s)[i]
RECURSIVE PositionalValue(_)
PositionalValue(ds) ==
    IF ds = <<>> THEN 0
    ELSE 10 * PositionalValue(SubSeq(ds, 1, Len(ds) - 1))
         + (CHOOSE d \in 0..9 : Digits[d + 1] = ds[Len(ds)])
DecimalValue(s) ==
    IF s[1] = "-" THEN 0 - PositionalValue(UnsignedPart(s)) ELSE PositionalValue(UnsignedPart(s))

\* what a slot of type ty holds for the fragment text f
SlotValue(ty, f) == IF ty = "Str" THEN f ELSE DecimalValue(f)

\* the descriptor text of the Mandatory items of a schema
MandatoryText(items) ==
    Concat([k \in 1..Len(items) |->
               IF items[k].opt = "Mandatory" THEN TypeText(items[k].ty) ELSE <<>>])
IsPrefix(p, t) == Len(p) <= Len(t) /\ SubSeq(t, 1, Len(p)) = p

\* the pattern fragment p passes the pattern check of the block for a
\* schema with these items and this ending
PatternAccepted(items, open, p) ==
    IF open \/ (\E i \in 1..Len(items) : items[i].opt = "Optional")
    THEN IsPrefix(MandatoryText(items), p)
    ELSE p = MandatoryText(items)

\* every fragment that an Int slot takes is the text of an integer (frags
\* are the fragments of the text, the pattern first)
IntFragmentsDecimal(items, frags) ==
    \A i \in 1..Len(items) :
        (items[i].ty = "Int" /\ i < Len(frags)) => IsDecimal(frags[i + 1])

\* C12: with k Mandatory then m Optional items and c data fragments, a
\* decoded tuple has its Optional slots up to the c-th Present with the value
\* of their fragment and the later ones Absent; and a text with an accepted
\* pattern, k <= c <= k+m and integers in its Int fragments does decode: no
\* Optional slot fails for want of a fragment.
C12_OptionalSlotsFill ==
    ParseDone =>
        LET items == pcode.val.fmt_items
            k == NumMandatory(items)
            m == NumOptional(items)
            frags == split(input)
            c == Len(frags) - 1
        IN  /\ parsed.some =>
                  \A i \in (k + 1)..(k + m) :
                      parsed.val[i] = IF i <= c
                                      THEN Some(SlotValue(items[i].ty, frags[i + 1]))
                                      ELSE None
            /\ (/\ k <= c /\ c <= k + m
                /\ PatternAccepted(items, pcode.val.open_ending, PatternFragment(input))
                /\ IntFragmentsDecimal(items, frags))
                  => parsed.some

\* `%s%d?%s?` has decoded a text with two fragments: one Present, one Absent
C12_Witness ==
    /\ pc = "frag_parse"
    /\ ParseDescriptor = <<"%", "s", "%", "d", "?", "%", "s", "?">>
    /\ input = <<"%", "s", "%", "d", "_", "_", "a", "_", "_", "7">>
    /\ parsed = Some(<<<<"a">>, Some(7), None>>)

\* c data fragments fit a schema with these items and this ending
FragmentCountFits(items, open, c) ==
    /\ NumMandatory(items) <= c
    /\ open \/ c <= Len(items)

\* C13: a decode in which an Int slot, Mandatory or Optional, takes a
\* fragment that is not the text of an integer (the empty fragment included)
\* returns None; the content of the fragments of Str slots never matters: a
\* decode returns a tuple exactly when the pattern is accepted, the fragment
\* count fits and the Int fragments are integers, and the Str slots of the
\* tuple hold their fragments as they are, the empty one included.
C13_FragmentContents ==
    ParseDone =>
        LET items == pcode.val.fmt_items
            open == pcode.val.open_ending
            frags == split(input)
            c == Len(frags) - 1
        IN  /\ (\E i \in 1..Len(items) :
                   /\ i <= c
                   /\ items[i].ty = "Int"
                   /\ ~IsDecimal(frags[i + 1])) => parsed = None
            /\ parsed.some <=> (/\ FragmentCountFits(items, open, c)
                                /\ PatternAccepted(items, open, PatternFragment(input))
                                /\ IntFragmentsDecimal(items, frags))
            /\ parsed.some =>
                  \A i \in 1..Len(items) :
                      (i <= c /\ items[i].ty = "Str") =>
                          parsed.val[i] = IF items[i].opt = "Mandatory"
                                          THEN frags[i + 1]
                                          ELSE Some(frags[i + 1])

\* `%s%d?` has refused a text whose fragment for the Optional Int is empty
C13_Witness ==
    /\ pc = "frag_parse"
    /\ ParseDescriptor = OptionalDescriptor
    /\ input = <<"%", "s", "%", "d", "_", "_", "a", "_", "_">>
    /\ NumDataFragments(input) = 2
    /\ parsed = None

\* p is a prefix of t and shorter than t
IsStrictPrefix(p, t) == IsPrefix(p, t) /\ p # t

\* the schema has an Optional item or an Open ending
PrefixChecked ==
    pcode.val.open_ending
        \/ \E i \in 1..Len(pcode.val.fmt_items) : pcode.val.fmt_items[i].opt = "Optional"

\* C14 (as stated): under a schema with Optional items or an Open ending, a
\* pattern fragment that is a strict prefix of the rendering of the
\* Mandatory items passes the pattern check, so that the text decodes when
\* its fragments fit.
C14_ShorterPatternAccepted ==
    (/\ ParseDone
     /\ PrefixChecked
     /\ IsStrictPrefix(PatternFragment(input), MandatoryText(pcode.val.fmt_items)))
    => /\ pattern_ok(pcode.val, PatternFragment(input))
       /\ parsed.some
            \/ ~FragmentCountFits(pcode.val.fmt_items, pcode.val.open_ending,
                                  NumDataFragments(input))
            \/ ~IntFragmentsDecimal(pcode.val.fmt_items, split(input))

\* C14 (amended): under a schema with Optional items or an Open ending, a
\* pattern fragment that has the rendering of the Mandatory items as a
\* strict prefix passes the pattern check, so that the text decodes when its
\* fragments fit.
C14_LongerPatternAccepted ==
    (/\ ParseDone
     /\ PrefixChecked
     /\ IsStrictPrefix(MandatoryText(pcode.val.fmt_items), PatternFragment(input)))
    => /\ pattern_ok(pcode.val, PatternFragment(input))
       /\ parsed.some
            \/ ~FragmentCountFits(pcode.val.fmt_items, pcode.val.open_ending,
                                  NumDataFragments(input))
            \/ ~IntFragmentsDecimal(pcode.val.fmt_items, split(input))

\* `%s*` has decoded a text whose pattern is the longer `%s%d`
C14_Witness ==
    /\ pc = "frag_parse"
    /\ ParseDescriptor = <<"%", "s", "*">>
    /\ input = <<"%", "s", "%", "d", "_", "_", "a">>
    /\ parsed = Some(<<<<"a">>>>)

(***************************************************************************)
(* Schema evolution.                                                       *)
(***************************************************************************)
HasUnderscore(s) == \E i \in 1..Len(s) : s[i] = "_"

\* no value of the encoded tuple has an underscore in its text
UnderscoreFree ==
    \A k \in 1..Len(args) : ~HasUnderscore(ValueText(fcode.val.fmt_items[k], args[k]))

\* C15: a string encoded under the all-Mandatory descriptor D = P Q from
\* values without underscores decodes (a) under P followed by Q's items
\* marked Optional to the tuple of P's values plain and Q's values Present,
\* and (b) under `P*` to the tuple of exactly P's values.
C15_ForwardCompatible ==
    (pc = "frag_parse_other" /\ UnderscoreFree) =>
        LET items == pcode.val.fmt_items
            p == NumMandatory(items)
        IN  /\ \A i \in 1..Len(items) : items[i].ty = fcode.val.fmt_items[i]
            /\ p >= 1
            /\ ~pcode.val.open_ending =>
                  /\ Len(items) = Len(args)
                  /\ parsed = Some([i \in 1..Len(args) |->
                                       IF i <= p THEN args[i] ELSE Some(args[i])])
            /\ pcode.val.open_ending =>
                  /\ p = Len(items)
                  /\ parsed = Some(SubSeq(args, 1, p))

\* the output for ("a", 7) under `%s%d` has been decoded under `%s%d?`
C15_Witness ==
    /\ pc = "frag_parse_other"
    /\ fmt = <<"%", "s", "%", "d">>
    /\ ParseDescriptor = OptionalDescriptor
    /\ args = <<<<"a">>, 7>>
    /\ parsed = Some(<<<<"a">>, Some(7)>>)

(***************************************************************************)
(* Round trip and delimiters.                                              *)
(***************************************************************************)
\* C16 (as stated): the round trip returns the encoded tuple whenever no Str
\* value contains "__", values that begin or end with one "_" included.
C16_RoundTripNoDelimiterInside ==
    (/\ RoundTripDone
     /\ \A k \in 1..Len(args) :
            fcode.val.fmt_items[k] = "Str" => ~HasDelimiter(args[k]))
    => parsed = Some(args)

\* the Str values of a tuple, with their places
StrSlots(tys) == {k \in 1..Len(tys) : tys[k] = "Str"}

\* C16 (amended): the round trip returns the encoded tuple whenever no Str
\* value contains "__" and no Str value other than the last value ends with
\* "_"; a value that begins with one "_", and a last value that ends with
\* one "_", are returned as they are.
C16_RoundTripNoDelimiterFormed ==
    (/\ RoundTripDone
     /\ \A k \in StrSlots(fcode.val.fmt_items) : ~HasDelimiter(args[k])
     /\ \A k \in StrSlots(fcode.val.fmt_items) \ {Len(args)} : ~EndsWithUnderscore(args[k]))
    => parsed = Some(args)

\* a round trip of ("_a", "_"): a value that begins with "_" before the
\* delimiter, and a last value that ends with "_"
C16_Witness ==
    /\ RoundTripDone
    /\ fmt = <<"%", "s", "%", "s">>
    /\ args = <<<<"_", "a">>, <<"_">>>>
    /\ input = <<"%", "s", "%", "s", "_", "_", "_", "a", "_", "_", "_">>
    /\ parsed = Some(args)

(***************************************************************************)
(* Patterns that say more than the data, or something else.                *)
(***************************************************************************)
\* the descriptor text of the types of the first i items of a schema
TypesText(items, i) == Concat([k \in 1..i |-> TypeText(items[k].ty)])

\* C17: when the pattern fragment of a text declares an Optional item of the
\* schema (it starts with the types of the items up to that one) and the
\* text has no data fragment for it, the decode returns None; so does
\* `%s%d__test` under `%s%d?`.
C17_DeclaredOptionalNeedsFragment ==
    (/\ ParseDone
     /\ \E i \in 1..Len(pcode.val.fmt_items) :
            /\ pcode.val.fmt_items[i].opt = "Optional"
            /\ IsPrefix(TypesText(pcode.val.fmt_items, i), PatternFragment(input))
            /\ NumDataFragments(input) < i)
    => parsed = None

\* what the block returns for that text: the Optional Int is Absent
C17_Witness ==
    /\ pc = "frag_parse"
    /\ ParseDescriptor = OptionalDescriptor
    /\ input = <<"%", "s", "%", "d", "_", "_", "a">>
    /\ parsed = Some(<<<<"a">>, None>>)

\* the i-th item that a pattern fragment declares
PatternItem(p, i) == SubSeq(p, 2 * i - 1, 2 * i)

\* C18: when the pattern fragment of a text declares, at the place of an
\* item of the schema, an item of the other type, the decode returns None,
\* whether the schema has Optional items or an Open ending or neither; so
\* does `%s%s__test__42` under `%s%d`, `%s%d?` and `%s%d?*`.
C18_TypeMismatchRefused ==
    (/\ ParseDone
     /\ \E i \in 1..Len(pcode.val.fmt_items) :
            /\ 2 * i <= Len(PatternFragment(input))
            /\ PatternItem(PatternFragment(input), i) # TypeText(pcode.val.fmt_items[i].ty))
    => parsed = None

\* what the block returns for `%s%s__a__7` under `%s%d?*`: the text is
\* taken, the second fragment read as the Int
C18_Witness ==
    /\ pc = "frag_parse"
    /\ ParseDescriptor = OptionalDescriptor \o <<"*">>
    /\ input = <<"%", "s", "%", "s", "_", "_", "a", "_", "_", "7">>
    /\ parsed = Some(<<<<"a">>, Some(7)>>)

(***************************************************************************)
(* The two strict descriptor parsers.                                      *)
(***************************************************************************)
\* C19: on every descriptor string the encoder's own parse_format_string and
\* the shared parse_format_string return the same thing: None on the same
\* strings (those that are not a non-empty run of %s and %d), and the same
\* list of item types on the others.
C19_StrictParsersAgree ==
    /\ pc = "parse_format_string" =>
          /\ fmt_parsed = fmt_parse_format_string(fmt)
          /\ fmt_parsed.some <=> InStrictGrammar(fmt)
    /\ pc = "fmt_parse_format_string" =>
          /\ fmt_parsed = parse_format_string(fmt)
          /\ fmt_parsed.some <=> InStrictGrammar(fmt)

\* the encoder's parser has returned the types of `%s%d`, as the shared one
\* does
C19_Witness ==
    /\ pc = "fmt_parse_format_string"
    /\ fmt = <<"%", "s", "%", "d">>
    /\ fmt_parsed = Some(<<"Str", "Int">>)
    /\ parse_format_string(fmt) = fmt_parsed

(***************************************************************************)
(* Int slots and the cast to i64.                                          *)
(***************************************************************************)
\* the sum of two limb values, with the carry out of 64 bits
LimbsSum(x, y) ==
    LET s4 == x[4] + y[4]
        s3 == x[3] + y[3] + (s4 \div LimbBase)
        s2 == x[2] + y[2] + (s3 \div LimbBase)
        s1 == x[1] + y[1] + (s2 \div LimbBase)
    IN  [m |-> <<s1 % LimbBase, s2 % LimbBase, s3 % LimbBase, s4 % LimbBase>>,
         carry |-> s1 \div LimbBase]

\* the i64 w is the u64 v wrapped to 64 bits: v itself below 2^63, and
\* v - 2^64 (so that |w| + v = 2^64) from 2^63 on
Wraps(v, w) ==
    IF v[1] < 32768 THEN ~w.neg /\ w.mag = v
    ELSE w.neg /\ LimbsSum(w.mag, v) = [m |-> LimbsZero, carry |-> 1]

\* the text of the wrapped value of each u64 argument of the model
WrappedText(v) ==
    CASE v = U64Seven -> <<"7">>
      [] v = U64HalfLess -> <<"9", "2", "2", "3", "3", "7", "2", "0", "3", "6", "8", "5", "4", "7", "7", "5", "8", "0", "7">>
      [] v = U64Half -> <<"-", "9", "2", "2", "3", "3", "7", "2", "0", "3", "6", "8", "5", "4", "7", "7", "5", "8", "0", "8">>
      [] v = U64NearMax -> <<"-">> \o Decimal(MaxInt)
      [] v = U64Max -> <<"-", "1">>

\* the wrapped value of each u64 argument of the model, as a decoded Int
WrappedValue(v) ==
    CASE v = U64Seven -> 7
      [] v = U64HalfLess -> [neg |-> FALSE, mag |-> U64HalfLess]
      [] v = U64Half -> [neg |-> TRUE, mag |-> U64Half]
      [] v = U64NearMax -> 0 - MaxInt
      [] v = U64Max -> 0 - 1

\* no Str argument has an underscore, so that the fragments of the output
\* are the rendered arguments
StrArgsUnderscoreFree ==
    \A k \in 1..Len(args) : fcode.val.fmt_items[k] = "Str" => ~HasUnderscore(args[k])

\* C20: frag_format! on u64 arguments always returns a string; an Int slot
\* renders its argument v wrapped to a signed 64-bit integer: v below 2^63,
\* v - 2^64 from 2^63 on (2^64 - 1 renders as `-1`); and the rendered field
\* decodes to that wrapped integer.
C20_CastWraps ==
    /\ pc = "frag_format_u64" =>
          /\ formatted.some
          /\ \A k \in 1..Len(args) :
                 fcode.val.fmt_items[k] = "Int" =>
                     /\ Wraps(args[k], u64_as_i64(args[k]))
                     /\ StrArgsUnderscoreFree =>
                            DataFragment(formatted.val, k) = WrappedText(args[k])
    /\ (pc = "frag_parse_u64" /\ StrArgsUnderscoreFree) =>
          /\ parsed.some
          /\ \A k \in 1..Len(args) :
                 fcode.val.fmt_items[k] = "Int" => parsed.val[k] = WrappedValue(args[k])

\* 2^64 - 1 and 2^63 have been rendered as `-1` and `-9223372036854775808`
\* and decoded to those integers
C20_Witness ==
    /\ pc = "frag_parse_u64"
    /\ fmt = <<"%", "d", "%", "d">>
    /\ args = <<U64Max, U64Half>>
    /\ input = <<"%", "d", "%", "d", "_", "_", "-", "1", "_", "_">> \o <<"-", "9", "2", "2", "3", "3", "7", "2", "0", "3", "6", "8", "5", "4", "7", "7", "5", "8", "0", "8">>
    /\ parsed = Some(<<0 - 1, [neg |-> TRUE, mag |-> U64Half]>>)

====
